---- MODULE Spec2Model ----
(***************************************************************************)
(* Model of grig's debug message handler (src/src/grig-debug.c).           *)
(*                                                                         *)
(* A character is a one-character string and a C string is the sequence    *)
(* of its characters (without the terminating NUL).  A record written to   *)
(* stderr by manage_debug_message is modelled by the fields that follow    *)
(* the time stamp: the source name, the level and the message.             *)
(***************************************************************************)
EXTENDS Integers, Sequences, FiniteSets, TLC

(* ------------------------------------------------------------------ *)
(* Bounds of the model                                                 *)
(* ------------------------------------------------------------------ *)

\* longest message text drawn from Chars
MaxLen == 3

\* number of calls made in a behaviour of Spec
MaxCalls == 3

(* ------------------------------------------------------------------ *)
(* Constants of the program                                            *)
(* ------------------------------------------------------------------ *)

\* enum rig_debug_level_e, as used by the handler
RIG_DEBUG_NONE == 0

RIG_DEBUG_VERBOSE == 4

RIG_DEBUG_TRACE == 5

NULL == "NULL"

\* const gchar *SRC_TO_STR[], indexed by debug_msg_src_t
SRC_TO_STR ==
    [MSG_SRC_NONE |-> "NONE", MSG_SRC_HAMLIB |-> "HAMLIB", MSG_SRC_GRIG |-> "GRIG"]

\* the characters g_strchomp removes from the end of a string
Whitespace == {" ", "\t", "\n", "\r", "\f"}

\* the two messages the handler itself sends, and __FUNCTION__ in each
InitFmt ==
    <<"%", "s", ":", " ", "D", "e", "b", "u", "g", " ", "h", "a", "n", "d",
      "l", "e", "r", " ", "i", "n", "i", "t", "i", "a", "l", "i", "s", "e",
      "d", ".">>

InitFunction ==
    <<"g", "r", "i", "g", "_", "d", "e", "b", "u", "g", "_", "i", "n", "i", "t">>

CloseFmt ==
    <<"%", "s", ":", " ", "S", "h", "u", "t", "t", "i", "n", "g", " ", "d",
      "o", "w", "n", " ", "d", "e", "b", "u", "g", " ", "h", "a", "n", "d",
      "l", "e", "r", ".">>

CloseFunction ==
    <<"g", "r", "i", "g", "_", "d", "e", "b", "u", "g", "_", "c", "l", "o", "s", "e">>

(* ------------------------------------------------------------------ *)
(* Inputs                                                              *)
(* ------------------------------------------------------------------ *)

Chars == {"a", " ", "\n"}

SeqsUpTo(S, n) == UNION {[1..k -> S] : k \in 0..n}

\* two multi-line messages: a final newline, and an embedded empty line
TwoLines == <<"l", "i", "n", "e", "1", "\n", "l", "i", "n", "e", "2", "\n">>

EmptyMiddleLine == <<"l", "i", "n", "e", "1", "\n", "\n", "l", "i", "n", "e", "2">>

Texts == SeqsUpTo(Chars, MaxLen) \cup {TwoLines, EmptyMiddleLine}

\* the texts the calls of Spec are made with: no line, one line, two lines
LifecycleTexts == {<<>>, <<"a", "\n">>, TwoLines}

\* levels a message is sent at
MsgLevels == RIG_DEBUG_NONE .. RIG_DEBUG_TRACE

\* values passed to grig_debug_set_level, in and out of range
SetLevelInputs == (RIG_DEBUG_NONE - 1) .. (RIG_DEBUG_TRACE + 1)

\* file names passed to grig_debug_init
Filenames == {NULL, "grig.log"}

(* ------------------------------------------------------------------ *)
(* State                                                               *)
(* ------------------------------------------------------------------ *)

VARIABLES
    dbglvl,           \* static enum rig_debug_level_e dbglvl
    logfname,         \* static gchar *logfname
    rig_debug_cb,     \* the callback registered with hamlib
    rig_debug_level,  \* hamlib's own debug level
    stderr,           \* the records written to stderr, in order
    last,             \* history: the most recent call
    ncalls            \* history: the number of calls made

vars == <<dbglvl, logfname, rig_debug_cb, rig_debug_level, stderr, last, ncalls>>

(* ------------------------------------------------------------------ *)
(* glib                                                                *)
(* ------------------------------------------------------------------ *)

RECURSIVE g_strdup_vprintf(_, _)
\* printf-style formatting; %s is the only conversion the handler uses
g_strdup_vprintf(fmt, ap) ==
    IF fmt = <<>> THEN <<>>
    ELSE IF Len(fmt) >= 2 /\ fmt[1] = "%" /\ fmt[2] = "s"
         THEN Head(ap) \o g_strdup_vprintf(SubSeq(fmt, 3, Len(fmt)), Tail(ap))
         ELSE <<fmt[1]>> \o g_strdup_vprintf(Tail(fmt), ap)

RECURSIVE g_strchomp(_)
\* removes trailing whitespace
g_strchomp(string) ==
    IF string # <<>> /\ string[Len(string)] \in Whitespace
    THEN g_strchomp(SubSeq(string, 1, Len(string) - 1))
    ELSE string

RECURSIVE Tokens(_, _)
\* the tokens of a non-consumed remainder: n delimiters give n + 1 tokens
Tokens(string, delimiters) ==
    IF \E i \in 1..Len(string) : string[i] \in delimiters
    THEN LET i == CHOOSE j \in 1..Len(string) :
                    /\ string[j] \in delimiters
                    /\ \A k \in 1..(j - 1) : string[k] \notin delimiters
         IN <<SubSeq(string, 1, i - 1)>>
                \o Tokens(SubSeq(string, i + 1, Len(string)), delimiters)
    ELSE <<string>>

\* max_tokens = 0: no limit; the empty string splits into the empty vector
g_strsplit_set(string, delimiters) ==
    IF string = <<>> THEN <<>> ELSE Tokens(string, delimiters)

(* ------------------------------------------------------------------ *)
(* The handler                                                         *)
(* ------------------------------------------------------------------ *)

\* the record written to stderr (after the time stamp)
manage_debug_message(source, debug_level, message) ==
    [src |-> SRC_TO_STR[source], level |-> debug_level, msg |-> message]

\* grig_debug_hamlib_cb without the g_strchomp of line 140
grig_debug_hamlib_cb_nochomp(debug_level, fmt, ap) ==
    IF debug_level > dbglvl THEN <<>>
    ELSE LET msg == g_strdup_vprintf(fmt, ap)
             msgv == g_strsplit_set(msg, {"\n"})
             numlines == Len(msgv)
         IN [i \in 1..numlines |->
                manage_debug_message("MSG_SRC_HAMLIB", debug_level, msgv[i])]

\* the records grig_debug_hamlib_cb writes, in order
grig_debug_hamlib_cb(debug_level, fmt, ap) ==
    IF debug_level > dbglvl THEN <<>>
    ELSE LET msg == g_strchomp(g_strdup_vprintf(fmt, ap))
             msgv == g_strsplit_set(msg, {"\n"})
             numlines == Len(msgv)
         IN [i \in 1..numlines |->
                manage_debug_message("MSG_SRC_HAMLIB", debug_level, msgv[i])]

\* grig_debug_local with the test of line 178 written >=
grig_debug_local_ge(debug_level, fmt, ap) ==
    IF debug_level >= dbglvl THEN <<>>
    ELSE LET msg == g_strchomp(g_strdup_vprintf(fmt, ap))
             msgv == g_strsplit_set(msg, {"\n"})
             numlines == Len(msgv)
         IN [i \in 1..numlines |->
                manage_debug_message("MSG_SRC_GRIG", debug_level, msgv[i])]

\* the records grig_debug_local writes, in order
grig_debug_local(debug_level, fmt, ap) ==
    IF debug_level > dbglvl THEN <<>>
    ELSE LET msg == g_strchomp(g_strdup_vprintf(fmt, ap))
             msgv == g_strsplit_set(msg, {"\n"})
             numlines == Len(msgv)
         IN [i \in 1..numlines |->
                manage_debug_message("MSG_SRC_GRIG", debug_level, msgv[i])]

grig_debug_get_log_file ==
    IF logfname # NULL THEN logfname ELSE NULL

grig_debug_get_level == dbglvl

\* the effects of one call on the outside world, in program order
Writes(records) == [i \in 1..Len(records) |-> "stderr"]

\* history of a call: its arguments and the state it was made in
Call(op, level, fmt, filename, fx) ==
    [op |-> op, level |-> level, fmt |-> fmt, filename |-> filename,
     dbglvl0 |-> dbglvl, n0 |-> Len(stderr), cb0 |-> rig_debug_cb,
     rig0 |-> rig_debug_level, logfname0 |-> logfname, fx |-> fx,
     prevop |-> last.op, prevlevel |-> last.level, prevn0 |-> last.n0]

\* grig_debug_init sending its message at RIG_DEBUG_TRACE
grig_debug_init_trace(filename) ==
    LET out == grig_debug_local(RIG_DEBUG_TRACE, InitFmt, <<InitFunction>>)
    IN /\ rig_debug_cb' = "grig_debug_hamlib_cb"
       /\ stderr' = stderr \o out
       /\ last' = Call("init", RIG_DEBUG_TRACE, InitFmt, filename,
                       <<"rig_set_debug_callback">> \o Writes(out))
       /\ ncalls' = ncalls + 1
       /\ UNCHANGED <<dbglvl, logfname, rig_debug_level>>

grig_debug_init(filename) ==
    LET out == grig_debug_local(RIG_DEBUG_VERBOSE, InitFmt, <<InitFunction>>)
    IN /\ rig_debug_cb' = "grig_debug_hamlib_cb"
       /\ stderr' = stderr \o out
       /\ last' = Call("init", RIG_DEBUG_VERBOSE, InitFmt, filename,
                       <<"rig_set_debug_callback">> \o Writes(out))
       /\ ncalls' = ncalls + 1
       /\ UNCHANGED <<dbglvl, logfname, rig_debug_level>>

\* grig_debug_close that also resets the level
grig_debug_close_reset ==
    LET out == grig_debug_local(RIG_DEBUG_VERBOSE, CloseFmt, <<CloseFunction>>)
    IN /\ stderr' = stderr \o out
       /\ rig_debug_cb' = NULL
       /\ dbglvl' = RIG_DEBUG_NONE
       /\ last' = Call("close", RIG_DEBUG_VERBOSE, CloseFmt, NULL,
                       Writes(out) \o <<"rig_set_debug_callback">>)
       /\ ncalls' = ncalls + 1
       /\ UNCHANGED <<logfname, rig_debug_level>>

\* grig_debug_close removing the handler before it sends the final message
grig_debug_close_remove_first ==
    LET out == grig_debug_local(RIG_DEBUG_VERBOSE, CloseFmt, <<CloseFunction>>)
    IN /\ rig_debug_cb' = NULL
       /\ stderr' = stderr \o out
       /\ last' = Call("close", RIG_DEBUG_VERBOSE, CloseFmt, NULL,
                       <<"rig_set_debug_callback">> \o Writes(out))
       /\ ncalls' = ncalls + 1
       /\ UNCHANGED <<dbglvl, logfname, rig_debug_level>>

grig_debug_close ==
    LET out == grig_debug_local(RIG_DEBUG_VERBOSE, CloseFmt, <<CloseFunction>>)
    IN /\ stderr' = stderr \o out
       /\ rig_debug_cb' = NULL
       /\ last' = Call("close", RIG_DEBUG_VERBOSE, CloseFmt, NULL,
                       Writes(out) \o <<"rig_set_debug_callback">>)
       /\ ncalls' = ncalls + 1
       /\ UNCHANGED <<dbglvl, logfname, rig_debug_level>>

\* grig_debug_set_level without the upper test of line 263
grig_debug_set_level_no_upper(level) ==
    /\ IF level >= RIG_DEBUG_NONE
       THEN /\ dbglvl' = level
            /\ rig_debug_level' = level
            /\ last' = Call("set_level", level, <<>>, NULL, <<"rig_set_debug">>)
       ELSE /\ UNCHANGED <<dbglvl, rig_debug_level>>
            /\ last' = Call("set_level", level, <<>>, NULL, <<>>)
    /\ ncalls' = ncalls + 1
    /\ UNCHANGED <<logfname, rig_debug_cb, stderr>>

\* grig_debug_set_level without the rig_set_debug of line 266
grig_debug_set_level_no_forward(level) ==
    /\ IF (level >= RIG_DEBUG_NONE) /\ (level <= RIG_DEBUG_TRACE)
       THEN /\ dbglvl' = level
            /\ UNCHANGED rig_debug_level
            /\ last' = Call("set_level", level, <<>>, NULL, <<>>)
       ELSE /\ UNCHANGED <<dbglvl, rig_debug_level>>
            /\ last' = Call("set_level", level, <<>>, NULL, <<>>)
    /\ ncalls' = ncalls + 1
    /\ UNCHANGED <<logfname, rig_debug_cb, stderr>>

grig_debug_set_level(level) ==
    /\ IF (level >= RIG_DEBUG_NONE) /\ (level <= RIG_DEBUG_TRACE)
       THEN /\ dbglvl' = level
            /\ rig_debug_level' = level
            /\ last' = Call("set_level", level, <<>>, NULL, <<"rig_set_debug">>)
       ELSE /\ UNCHANGED <<dbglvl, rig_debug_level>>
            /\ last' = Call("set_level", level, <<>>, NULL, <<>>)
    /\ ncalls' = ncalls + 1
    /\ UNCHANGED <<logfname, rig_debug_cb, stderr>>

\* the application logs a message
Log(debug_level, fmt) ==
    LET out == grig_debug_local(debug_level, fmt, <<>>)
    IN /\ stderr' = stderr \o out
       /\ last' = Call("local", debug_level, fmt, NULL, Writes(out))
       /\ ncalls' = ncalls + 1
       /\ UNCHANGED <<dbglvl, logfname, rig_debug_cb, rig_debug_level>>

\* the callback is invoked with a message of hamlib
ReceiveFromLibrary(debug_level, fmt) ==
    LET out == grig_debug_hamlib_cb(debug_level, fmt, <<>>)
    IN /\ stderr' = stderr \o out
       /\ last' = Call("hamlib_cb", debug_level, fmt, NULL, Writes(out))
       /\ ncalls' = ncalls + 1
       /\ UNCHANGED <<dbglvl, logfname, rig_debug_cb, rig_debug_level>>

(* ------------------------------------------------------------------ *)
(* Specifications                                                      *)
(* ------------------------------------------------------------------ *)

\* hamlib's own level is whatever the library starts with
Init ==
    /\ dbglvl = RIG_DEBUG_NONE
    /\ logfname = NULL
    /\ rig_debug_cb = NULL
    /\ rig_debug_level \in MsgLevels
    /\ stderr = <<>>
    /\ last = [op |-> "none", level |-> RIG_DEBUG_NONE, fmt |-> <<>>,
               filename |-> NULL, dbglvl0 |-> RIG_DEBUG_NONE, n0 |-> 0,
               cb0 |-> NULL, rig0 |-> RIG_DEBUG_NONE, logfname0 |-> NULL,
               fx |-> <<>>, prevop |-> "none", prevlevel |-> RIG_DEBUG_NONE,
               prevn0 |-> 0]
    /\ ncalls = 0

DoInit ==
    /\ ncalls < MaxCalls
    /\ \E filename \in Filenames : grig_debug_init(filename)

DoClose ==
    /\ ncalls < MaxCalls
    /\ grig_debug_close

DoSetLevel ==
    /\ ncalls < MaxCalls
    /\ \E level \in SetLevelInputs : grig_debug_set_level(level)

DoLog ==
    /\ ncalls < MaxCalls
    /\ \E level \in MsgLevels, fmt \in LifecycleTexts : Log(level, fmt)

DoReceive ==
    /\ ncalls < MaxCalls
    /\ \E level \in MsgLevels, fmt \in LifecycleTexts : ReceiveFromLibrary(level, fmt)

\* any MaxCalls calls, in any order
Next == DoInit \/ DoClose \/ DoSetLevel \/ DoLog \/ DoReceive

Spec == Init /\ [][Next]_vars

IsMsgCall == last.op \in {"local", "hamlib_cb"}

ConfigureText == ncalls = 0 /\ DoSetLevel

LogText ==
    /\ ~IsMsgCall
    /\ \E level \in MsgLevels, fmt \in Texts : Log(level, fmt)

ReceiveText ==
    /\ ~IsMsgCall
    /\ \E level \in MsgLevels, fmt \in Texts : ReceiveFromLibrary(level, fmt)

\* at most one grig_debug_set_level, then one message of any text
NextText == ConfigureText \/ LogText \/ ReceiveText

SpecText == Init /\ [][NextText]_vars

(* ------------------------------------------------------------------ *)
(* Properties                                                          *)
(* ------------------------------------------------------------------ *)

\* the records the most recent call wrote
Emitted == SubSeq(stderr, last.n0 + 1, Len(stderr))

Messages(records) == [i \in 1..Len(records) |-> records[i].msg]

ValidLevels == RIG_DEBUG_NONE .. RIG_DEBUG_TRACE

\* the threshold the most recent call ran under was installed by the
\* grig_debug_set_level call right before it
InstalledBySetLevel ==
    /\ last.prevop = "set_level"
    /\ last.prevlevel \in ValidLevels
    /\ last.dbglvl0 = last.prevlevel

\* the text has a character that is not whitespace
NonBlank(text) == \E i \in 1..Len(text) : text[i] \notin Whitespace

\* C1 as stated: under a threshold L installed by set_level, a message at a
\* level above L writes no record and a message at a level <= L writes at
\* least one record, whatever its text.  (Stated for the messages sent at a
\* level above NONE, which is enough to refute it.)
C1_FilterAnyText ==
    (IsMsgCall /\ InstalledBySetLevel /\ last.level > RIG_DEBUG_NONE) =>
        /\ (last.level > last.dbglvl0 => Emitted = <<>>)
        /\ (last.level <= last.dbglvl0 => Len(Emitted) >= 1)

\* C1 amended: under a threshold L installed by set_level, a message at a
\* level above L writes no record; a message at a level <= L writes at least
\* one record exactly when its text has a non-whitespace character, and
\* writes none when the text is empty or all whitespace.
C1_FilterNonBlank ==
    (IsMsgCall /\ InstalledBySetLevel) =>
        /\ (last.level > last.dbglvl0 => Emitted = <<>>)
        /\ (last.level <= last.dbglvl0 =>
                (Len(Emitted) >= 1 <=> NonBlank(last.fmt)))

C1_Witness ==
    /\ IsMsgCall /\ InstalledBySetLevel
    /\ last.dbglvl0 > RIG_DEBUG_NONE
    /\ last.level = last.dbglvl0
    /\ Len(Emitted) >= 1

\* C2: the threshold is always one of NONE..TRACE, and a set_level call with
\* a value outside that range leaves get_level as it was before the call.
C2_ThresholdValid ==
    /\ dbglvl \in ValidLevels
    /\ (last.op = "set_level" /\ last.level \notin ValidLevels) =>
            grig_debug_get_level = last.dbglvl0

C2_Witness ==
    /\ last.op = "set_level"
    /\ last.level > RIG_DEBUG_TRACE
    /\ last.prevop = "set_level"
    /\ grig_debug_get_level = RIG_DEBUG_VERBOSE

\* C3 as stated: while the threshold is NONE no message call, at any level,
\* writes a record.
C3_NoneDisablesAll ==
    (IsMsgCall /\ last.dbglvl0 = RIG_DEBUG_NONE) => Emitted = <<>>

RECURSIVE StripTrailingNewlines(_)
StripTrailingNewlines(text) ==
    IF text # <<>> /\ text[Len(text)] = "\n"
    THEN StripTrailingNewlines(SubSeq(text, 1, Len(text) - 1))
    ELSE text

\* C4 as stated: a message that passes the filter writes one record per
\* newline-separated segment of its text with the trailing newlines (and
\* nothing else) stripped, in order.  (Stated for the messages sent at a
\* level above NONE and with a non-whitespace character, which is enough
\* to refute it.)
C4_SegmentsOfText ==
    (IsMsgCall /\ last.level <= last.dbglvl0 /\ last.level > RIG_DEBUG_NONE
        /\ NonBlank(last.fmt)) =>
        Messages(Emitted) = g_strsplit_set(StripTrailingNewlines(last.fmt), {"\n"})

InitialisedText ==
    <<"g", "r", "i", "g", "_", "d", "e", "b", "u", "g", "_", "i", "n", "i",
      "t", ":", " ", "D", "e", "b", "u", "g", " ", "h", "a", "n", "d", "l",
      "e", "r", " ", "i", "n", "i", "t", "i", "a", "l", "i", "s", "e", "d", ".">>

ShuttingDownText ==
    <<"g", "r", "i", "g", "_", "d", "e", "b", "u", "g", "_", "c", "l", "o",
      "s", "e", ":", " ", "S", "h", "u", "t", "t", "i", "n", "g", " ", "d",
      "o", "w", "n", " ", "d", "e", "b", "u", "g", " ", "h", "a", "n", "d",
      "l", "e", "r", ".">>

InitialisedRecord ==
    [src |-> "GRIG", level |-> RIG_DEBUG_VERBOSE, msg |-> InitialisedText]

ShuttingDownRecord ==
    [src |-> "GRIG", level |-> RIG_DEBUG_VERBOSE, msg |-> ShuttingDownText]

\* C5: init followed immediately by close writes exactly the VERBOSE
\* "initialised" record and then the VERBOSE "shutting down" record, both of
\* source GRIG, when the threshold is VERBOSE or above, and writes nothing
\* when the threshold is below VERBOSE.
C5_InitThenClose ==
    (last.op = "close" /\ last.prevop = "init") =>
        SubSeq(stderr, last.prevn0 + 1, Len(stderr)) =
            IF dbglvl >= RIG_DEBUG_VERBOSE
            THEN <<InitialisedRecord, ShuttingDownRecord>>
            ELSE <<>>

C5_Witness ==
    /\ last.op = "close" /\ last.prevop = "init"
    /\ dbglvl >= RIG_DEBUG_VERBOSE
    /\ Len(stderr) = last.prevn0 + 2

\* C6 as stated: after init, get_log_file returns NULL when init was given
\* no file name and the file name init was given otherwise.
C6_LogFileIsInitArgument ==
    last.op = "init" => grig_debug_get_log_file = last.filename

\* the handler was not registered when the most recent call was made: it
\* was never initialised, or closed since
NotInitialised == last.cb0 = NULL

\* C7 as stated: close on a handler that is not initialised changes nothing:
\* not the level, the log file name or the registration, and it writes no
\* record.
C7_CloseNoOp ==
    (last.op = "close" /\ NotInitialised) =>
        /\ dbglvl = last.dbglvl0
        /\ logfname = last.logfname0
        /\ rig_debug_cb = last.cb0
        /\ rig_debug_level = last.rig0
        /\ Emitted = <<>>

\* C7 amended: close on a handler that is not initialised changes neither
\* the level, the log file name nor the registration, but it still writes
\* the "shutting down" record when the threshold is VERBOSE or above (and
\* nothing below VERBOSE).
C7_CloseKeepsState ==
    (last.op = "close" /\ NotInitialised) =>
        /\ dbglvl = last.dbglvl0
        /\ logfname = last.logfname0
        /\ rig_debug_cb = last.cb0
        /\ rig_debug_level = last.rig0
        /\ Emitted = IF dbglvl >= RIG_DEBUG_VERBOSE
                     THEN <<ShuttingDownRecord>> ELSE <<>>

C7_Witness ==
    /\ last.op = "close" /\ NotInitialised
    /\ last.prevop = "close"
    /\ Emitted = <<ShuttingDownRecord>>

\* C8: after init the registered callback is grig_debug_hamlib_cb, whatever
\* was registered before; close writes its record (if any) before it removes
\* the callback; after close no callback is registered, and only init
\* registers one again.
C8_Registration ==
    /\ last.op = "init" => rig_debug_cb = "grig_debug_hamlib_cb"
    /\ last.op = "close" =>
        /\ rig_debug_cb = NULL
        /\ last.fx = Writes(Emitted) \o <<"rig_set_debug_callback">>
    /\ rig_debug_cb # NULL =>
        (last.op = "init" \/ (last.op # "close" /\ last.cb0 = rig_debug_cb))

C8_Witness ==
    /\ last.op = "close"
    /\ last.cb0 = "grig_debug_hamlib_cb"
    /\ rig_debug_cb = NULL
    /\ last.fx = <<"stderr", "rig_set_debug_callback">>

\* C9: an in-range set_level(L) makes the threshold L and passes L to hamlib,
\* so hamlib's level equals get_level from then on; an out-of-range
\* set_level passes nothing and leaves hamlib's level as it was.
C9_LevelForwarded ==
    /\ (last.op = "set_level" /\ last.level \in ValidLevels) =>
        /\ grig_debug_get_level = last.level
        /\ rig_debug_level = last.level
        /\ last.fx = <<"rig_set_debug">>
    /\ (last.op = "set_level" /\ last.level \notin ValidLevels) =>
        /\ rig_debug_level = last.rig0
        /\ last.fx = <<>>
    /\ grig_debug_get_level # RIG_DEBUG_NONE =>
        rig_debug_level = grig_debug_get_level

C9_Witness ==
    /\ last.op = "set_level"
    /\ last.level \in ValidLevels
    /\ last.rig0 # last.level
    /\ rig_debug_level = grig_debug_get_level

\* what the other entry point writes for the arguments of the most recent
\* message call (a message call leaves the threshold as it was)
OtherEntryPoint ==
    IF last.op = "local"
    THEN grig_debug_hamlib_cb(last.level, last.fmt, <<>>)
    ELSE grig_debug_local(last.level, last.fmt, <<>>)

\* C10: under the same threshold, log and receive_from_library write the
\* same number of records with the same levels and texts in the same order;
\* the records differ only in the source name, GRIG for log and HAMLIB for
\* receive_from_library.
C10_SourceOnlyDisplayed ==
    IsMsgCall =>
        /\ Len(Emitted) = Len(OtherEntryPoint)
        /\ \A i \in 1..Len(Emitted) :
            /\ Emitted[i].level = OtherEntryPoint[i].level
            /\ Emitted[i].msg = OtherEntryPoint[i].msg
            /\ Emitted[i].src = IF last.op = "local" THEN "GRIG" ELSE "HAMLIB"
            /\ OtherEntryPoint[i].src = IF last.op = "local" THEN "HAMLIB" ELSE "GRIG"

C10_Witness ==
    /\ last.op = "hamlib_cb"
    /\ last.dbglvl0 > RIG_DEBUG_NONE
    /\ Len(Emitted) >= 2
    /\ Emitted[1].msg # Emitted[2].msg

====
